---------------------------- MODULE Spec2Model ----------------------------
(***************************************************************************)
(* A model of the weather tool server (src/weather.py): the two tools      *)
(* get_alerts and get_forecast, the two metadata forwarding routes, the    *)
(* HTTP fetchers make_nws_request and make_userinfo_request, and the pure  *)
(* formatter format_alert.                                                 *)
(*                                                                         *)
(* Every handler is a coroutine.  It is cut into one action per segment    *)
(* between two suspension points (the awaits of client.get): the segment   *)
(* that issues a request, and the segment that runs from the delivery of   *)
(* the response to the next request or to the end of the handler.          *)
(*                                                                         *)
(* Python values: None is the record PyNone, a dict is a TLA+ function on  *)
(* its keys (the empty dict is << >>), a list is a sequence.  A text is a  *)
(* sequence of string pieces, in the order in which the f-string or the    *)
(* join writes them; the text itself is their concatenation.  The calls    *)
(* to logger.error write to the log only and are left out.                 *)
(***************************************************************************)
EXTENDS Integers, Sequences, FiniteSets, TLC

(***************************************************************************)
(* Bounds of the model.                                                    *)
(***************************************************************************)
NumInv == 2        \* concurrent invocations in flight
MaxAlerts == 3     \* longest `features` list an upstream answer carries
MaxPeriods == 6    \* longest `periods` list an upstream answer carries

Inv == 1..NumInv

(***************************************************************************)
(* Python values.                                                          *)
(***************************************************************************)
PyNone == [none |-> TRUE]
EmptyDict == << >>
Unset == [unset |-> TRUE]

\* bool(v) for the values the handlers test: None and the empty dict or
\* list are false.
Truthy(v) == v # PyNone /\ v # << >>

HasKey(d, k) == d # PyNone /\ k \in DOMAIN d

\* The outcome of a call: a returned value or a raised exception.
Ret(v) == [ret |-> v]
Raise(e) == [raise |-> e]
Raised(o) == "raise" \in DOMAIN o
Pending == [pending |-> TRUE]

\* str(n) of an int, as an f-string writes it.
Digits == <<"0", "1", "2", "3", "4", "5", "6", "7", "8", "9">>
RECURSIVE StrNat(_)
StrNat(n) == IF n < 10 THEN Digits[n + 1]
             ELSE StrNat(n \div 10) \o Digits[(n % 10) + 1]
PyStr(n) == IF n < 0 THEN "-" \o StrNat(-n) ELSE StrNat(n)

\* sep.join(texts) of str.join, on texts.
RECURSIVE Join(_, _)
Join(sep, texts) ==
  IF texts = << >> THEN << >>
  ELSE IF Len(texts) = 1 THEN texts[1]
  ELSE texts[1] \o sep \o Join(sep, Tail(texts))

(***************************************************************************)
(* Constants of the program.                                               *)
(***************************************************************************)
NWS_API_BASE == "https://api.weather.gov"
USER_AGENT == "weather-app/1.0"
USERINFO_URL == "https://dev-v5dtht4xch6aermg.us.auth0.com/userinfo"
AUTHSERVER_METADATA_URL ==
  "https://dev-v5dtht4xch6aermg.us.auth0.com/.well-known/oauth-authorization-server"
OPENID_METADATA_URL ==
  "https://dev-v5dtht4xch6aermg.us.auth0.com/.well-known/openid-configuration"
\* periods[:5]
PeriodLimit == 5

(***************************************************************************)
(* Requests.                                                               *)
(***************************************************************************)
NwsRequest(url) ==
  [url |-> url,
   headers |-> ("User-Agent" :> USER_AGENT) @@ ("Accept" :> "application/geo+json")]

UserinfoRequest(authtoken) ==
  [url |-> USERINFO_URL,
   headers |-> ("User-Agent" :> USER_AGENT) @@ ("Accept" :> "*/*")
               @@ ("authorization" :> authtoken)]

MetadataRequest(url) == [url |-> url, headers |-> << >>]

AlertsUrl(state) == NWS_API_BASE \o "/alerts/active/area/" \o state
\* latitude and longitude are carried as the decimal text the f-string
\* writes for them.
PointsUrl(latitude, longitude) ==
  NWS_API_BASE \o "/points/" \o latitude \o "," \o longitude

(***************************************************************************)
(* Upstream responses.  A response is a transport failure (the exception   *)
(* client.get raises) or an HTTP response with a status and a body; a body *)
(* is a JSON document or text that is no JSON document.                    *)
(***************************************************************************)
Http(status, body) == [kind |-> "http", status |-> status, body |-> body]
Json(v) == [json |-> v]
NotJson(t) == [text |-> t]

\* What the upstreams answer when they fail.  The concurrent specification
\* draws from the short list, the sequential one from the long list.
FailureResponses(rich) ==
  IF rich
  THEN {[kind |-> "ConnectError"], [kind |-> "ReadTimeout"],
        Http(404, Json([detail |-> "Not Found"])),
        Http(503, NotJson("Service Unavailable")),
        Http(200, NotJson("{ truncated")),
        Http(204, NotJson(""))}
  ELSE {[kind |-> "ReadTimeout"], Http(503, NotJson("Service Unavailable"))}

\* The identity provider resolves a bearer token to its subject's name.
Tokens == {"Bearer t1", "Bearer t2"}
NameOf(authtoken) == IF authtoken = "Bearer t1" THEN "Alex" ELSE "Sam"

UserinfoResponses(req, rich) ==
  FailureResponses(rich)
    \cup {Http(200, Json([name |-> NameOf(req.headers["authorization"])])),
          Http(200, Json([sub |-> "auth0|1"]))}
    \cup (IF rich THEN {Http(200, Json(PyNone)), Http(200, Json(EmptyDict))}
          ELSE {})

\* Alert features: every subset of the five optional fields.
AlertFields == {"event", "areaDesc", "severity", "description", "instruction"}
FieldValue(k) ==
  CASE k = "event" -> "Flood Warning"
    [] k = "areaDesc" -> "Wake County"
    [] k = "severity" -> "Severe"
    [] k = "description" -> "River rising"
    [] k = "instruction" -> "Move to higher ground"
Feature(present) == [properties |-> [k \in present |-> FieldValue(k)]]
AllFeatures == {Feature(present) : present \in SUBSET AlertFields}
OtherFeature ==
  [properties |-> [event |-> "Heat Advisory", areaDesc |-> "Durham County",
                   severity |-> "Moderate", description |-> "Hot",
                   instruction |-> "Drink water"]]
NoPropertiesFeature == [id |-> "urn:alert:1"]
FeaturePool ==
  {Feature(AlertFields), OtherFeature, Feature({"event", "severity"}),
   NoPropertiesFeature}

SeqsUpTo(S, n) == UNION {[1..m -> S] : m \in 0..n}

FeatureSeqs(rich) ==
  IF rich
  THEN SeqsUpTo(FeaturePool, MaxAlerts) \cup {<<f>> : f \in AllFeatures}
  ELSE {<< >>, <<OtherFeature>>, <<OtherFeature, Feature({"event"})>>}

AlertsResponses(rich) ==
  FailureResponses(rich)
    \cup {Http(200, Json([features |-> fs])) : fs \in FeatureSeqs(rich)}
    \cup {Http(200, Json([title |-> "no features"]))}
    \cup (IF rich THEN {Http(200, Json(PyNone)), Http(200, Json(EmptyDict))}
          ELSE {})

ForecastUrls ==
  {NWS_API_BASE \o "/gridpoints/RAH/1,2/forecast",
   NWS_API_BASE \o "/gridpoints/MHX/3,4/forecast"}

PointsResponses(rich) ==
  FailureResponses(rich)
    \cup {Http(200, Json([properties |-> [forecast |-> u]])) : u \in ForecastUrls}
    \cup {Http(200, Json([properties |-> [gridId |-> "RAH"]]))}
    \cup (IF rich
          THEN {Http(200, Json(PyNone)), Http(200, Json(EmptyDict)),
                Http(200, Json([title |-> "no properties"]))}
          ELSE {})

\* Forecast periods: the k-th period of an answer is PeriodAt(k), so that a
\* period's place in the answer can be read off the output.
PeriodAt(k) ==
  [name |-> "Period " \o PyStr(k), temperature |-> 25 - 10 * k,
   temperatureUnit |-> "F", windSpeed |-> PyStr(k) \o " mph",
   windDirection |-> "NW", detailedForecast |-> "Clear " \o PyStr(k)]
\* A period without its detailedForecast.
BadPeriodAt(k) == [name |-> "Period " \o PyStr(k), temperature |-> 25 - 10 * k]
Periods(n) == [k \in 1..n |-> PeriodAt(k)]
PeriodSeqs(rich) ==
  IF rich
  THEN {Periods(n) : n \in 0..MaxPeriods}
         \cup {[Periods(n) EXCEPT ![k] = BadPeriodAt(k)] :
                 n \in {MaxPeriods}, k \in 1..MaxPeriods}
  ELSE {<< >>, Periods(2)}

ForecastResponses(rich) ==
  FailureResponses(rich)
    \cup {Http(200, Json([properties |-> [periods |-> ps]])) : ps \in PeriodSeqs(rich)}
    \cup {Http(200, Json([properties |-> [units |-> "us"]]))}
    \cup (IF rich
          THEN {Http(200, Json(PyNone)), Http(200, Json(EmptyDict)),
                Http(200, Json([title |-> "no properties"]))}
          ELSE {})

MetadataResponses(rich) ==
  FailureResponses(rich)
    \cup {Http(200, Json([issuer |-> "https://dev-v5dtht4xch6aermg.us.auth0.com/"]))}

(***************************************************************************)
(* The HTTP fetchers.                                                      *)
(***************************************************************************)
\* response.raise_for_status() lets a 2xx status through.
IsSuccess(status) == status \div 100 = 2

\* The body of the try block: client.get, raise_for_status, response.json.
TryGet(r) ==
  IF r.kind # "http" THEN Raise(r.kind)
  ELSE IF ~IsSuccess(r.status) THEN Raise("HTTPStatusError")
  ELSE IF "json" \notin DOMAIN r.body THEN Raise("JSONDecodeError")
  ELSE Ret(r.body.json)

Failed(r) == Raised(TryGet(r))

\* The fetcher without its except clause.
make_nws_request_unguarded(r) == TryGet(r)
\* try: ... except Exception: return None
make_nws_request(r) ==
  IF Raised(TryGet(r)) THEN Ret(PyNone) ELSE TryGet(r)

\* try: ... except Exception as e: logger.error(...); return None
make_userinfo_request(r) ==
  IF Raised(TryGet(r)) THEN Ret(PyNone) ELSE TryGet(r)

\* The metadata routes call client.get, raise_for_status and response.json
\* outside any try block, and wrap the body in a JSONResponse.
metadata_route(r) == TryGet(r)

\* A fetcher that tries again after a failed attempt.
RetryFailed(r) == IF Failed(r) THEN "retry" ELSE "return"
\* What a fetcher does with a response: the try block stands in no loop, so
\* every response, failed or not, ends the call.
FetchDisposition(r) == "return"

(***************************************************************************)
(* format_alert.                                                           *)
(***************************************************************************)
\* dict.get(key, default)
Get(d, k, default) == IF k \in DOMAIN d THEN d[k] ELSE default

\* format_alert with the default of `severity` left empty.
format_alert_severity_blank(feature) ==
  IF ~HasKey(feature, "properties") THEN Raise("KeyError")
  ELSE LET props == feature["properties"] IN
    Ret(<<"\nEvent: ", Get(props, "event", "Unknown"),
          "\nArea: ", Get(props, "areaDesc", "Unknown"),
          "\nSeverity: ", Get(props, "severity", ""),
          "\nDescription: ", Get(props, "description", "No description available"),
          "\nInstructions: ", Get(props, "instruction", "No specific instructions provided"),
          "\n">>)

format_alert(feature) ==
  IF ~HasKey(feature, "properties") THEN Raise("KeyError")
  ELSE LET props == feature["properties"] IN
    Ret(<<"\nEvent: ", Get(props, "event", "Unknown"),
          "\nArea: ", Get(props, "areaDesc", "Unknown"),
          "\nSeverity: ", Get(props, "severity", "Unknown"),
          "\nDescription: ", Get(props, "description", "No description available"),
          "\nInstructions: ", Get(props, "instruction", "No specific instructions provided"),
          "\n">>)

(***************************************************************************)
(* get_alerts, between its suspension points.                              *)
(***************************************************************************)
UNABLE_ALERTS == <<"Unable to fetch alerts or no alerts found.">>
NO_ALERTS == <<"No active alerts for this state.">>
UNABLE_POINTS == <<"Unable to fetch forecast data for this location.">>
UNABLE_FORECAST == <<"Unable to fetch detailed forecast.">>

\* authtoken = headers["authorization"]
ReadAuthorization(headers) ==
  IF "authorization" \in DOMAIN headers THEN Ret(headers["authorization"])
  ELSE Raise("KeyError")

\* A lookup that falls back instead of raising: userinfo.get("name", "?").
UserinfoNameUnchecked(userinfo) ==
  IF userinfo # PyNone /\ "name" \in DOMAIN userinfo THEN Ret(userinfo["name"])
  ELSE Ret("?")
\* logger.error(f"name: {userinfo["name"]}")
UserinfoName(userinfo) ==
  IF userinfo = PyNone THEN Raise("TypeError")
  ELSE IF "name" \notin DOMAIN userinfo THEN Raise("KeyError")
  ELSE Ret(userinfo["name"])

\* f"\n---\nHi {userinfo["name"]}"
AlertSeparator(name) == <<"\n---\nHi " \o name>>

\* The greeting written before the first alert as well.
JoinAlertsGreetingFirst(name, alerts) ==
  AlertSeparator(name) \o Join(AlertSeparator(name), alerts)
\* f"...".join(alerts)
JoinAlerts(name, alerts) == Join(AlertSeparator(name), alerts)

\* alerts = [format_alert(feature) for feature in data["features"]] and the
\* return of the join.
FormatAlerts(features, userinfo) ==
  LET alerts == [k \in 1..Len(features) |-> format_alert(features[k])]
  IN IF \E k \in 1..Len(features) : Raised(alerts[k])
     THEN Raise("KeyError")
     ELSE LET name == UserinfoName(userinfo)
          IN IF Raised(name) THEN name
             ELSE Ret(JoinAlerts(name.ret,
                                 [k \in 1..Len(features) |-> alerts[k].ret]))

\* The first test reduced to `if not data`: data["features"] is then a
\* KeyError, and an empty list is joined to the empty text.
AlertsTailNoKeyCheck(data, userinfo) ==
  IF ~Truthy(data) THEN Ret(UNABLE_ALERTS)
  ELSE IF "features" \notin DOMAIN data THEN Raise("KeyError")
  ELSE FormatAlerts(data["features"], userinfo)

\* From `if not data or "features" not in data` to the return of the join.
AlertsTail(data, userinfo) ==
  IF ~Truthy(data) \/ "features" \notin DOMAIN data THEN Ret(UNABLE_ALERTS)
  ELSE IF data["features"] = << >> THEN Ret(NO_ALERTS)
  ELSE FormatAlerts(data["features"], userinfo)

(***************************************************************************)
(* get_forecast, between its suspension points.                            *)
(***************************************************************************)
\* Without `if not points_data`: None["properties"] is a TypeError.
ForecastUrlOfUnchecked(points_data) ==
  IF points_data = PyNone THEN Raise("TypeError")
  ELSE IF "properties" \notin DOMAIN points_data THEN Raise("KeyError")
  ELSE IF "forecast" \notin DOMAIN points_data["properties"] THEN Raise("KeyError")
  ELSE [next |-> points_data["properties"]["forecast"]]

\* From `if not points_data` to forecast_url: a final outcome, or the URL of
\* the next fetch.
ForecastUrlOf(points_data) ==
  IF ~Truthy(points_data) THEN Ret(UNABLE_POINTS)
  ELSE IF "properties" \notin DOMAIN points_data THEN Raise("KeyError")
  ELSE IF "forecast" \notin DOMAIN points_data["properties"] THEN Raise("KeyError")
  ELSE [next |-> points_data["properties"]["forecast"]]

PeriodKeys ==
  {"name", "temperature", "temperatureUnit", "windSpeed", "windDirection",
   "detailedForecast"}

\* The f-string of one period.
format_period(period) ==
  IF ~(PeriodKeys \subseteq DOMAIN period) THEN Raise("KeyError")
  ELSE Ret(<<"\n", period["name"],
             ":\nTemperature: ", PyStr(period["temperature"]), "Â°",
             period["temperatureUnit"],
             "\nWind: ", period["windSpeed"], " ", period["windDirection"],
             "\nForecast: ", period["detailedForecast"], "\n">>)

\* periods, without the slice.
AllPeriods(periods) == periods
\* periods[:5]
FirstPeriods(periods) ==
  SubSeq(periods, 1, IF Len(periods) < PeriodLimit THEN Len(periods) ELSE PeriodLimit)

FORECAST_SEPARATOR == <<"\n---\n">>

\* From `if not forecast_data` to the return of the join.
ForecastTail(forecast_data) ==
  IF ~Truthy(forecast_data) THEN Ret(UNABLE_FORECAST)
  ELSE IF "properties" \notin DOMAIN forecast_data THEN Raise("KeyError")
  ELSE IF "periods" \notin DOMAIN forecast_data["properties"] THEN Raise("KeyError")
  ELSE LET shown == FirstPeriods(forecast_data["properties"]["periods"])
           forecasts == [k \in 1..Len(shown) |-> format_period(shown[k])]
       IN IF \E k \in 1..Len(shown) : Raised(forecasts[k])
          THEN Raise("KeyError")
          ELSE Ret(Join(FORECAST_SEPARATOR,
                        [k \in 1..Len(shown) |-> forecasts[k].ret]))

(***************************************************************************)
(* The calls the serving framework hands to the handlers.                  *)
(***************************************************************************)
InboundHeaders ==
  {("authorization" :> t) @@ ("x-request-id" :> "r1") : t \in Tokens}
    \cup {("x-request-id" :> "r1")}

States(rich) == IF rich THEN {"NC", "CA"} ELSE {"NC"}
Coordinates(rich) ==
  IF rich THEN {<<"35.78", "-78.64">>, <<"-33.9", "151.2">>}
  ELSE {<<"35.78", "-78.64">>}

MetadataUrl(tool) ==
  IF tool = "authorization_server_metadata" THEN AUTHSERVER_METADATA_URL
  ELSE OPENID_METADATA_URL

Calls(rich) ==
  {[tool |-> "get_alerts", headers |-> h, args |-> [state |-> st]] :
     h \in InboundHeaders, st \in States(rich)}
  \cup {[tool |-> "get_forecast", headers |-> ("x-request-id" :> "r1"),
         args |-> [latitude |-> c[1], longitude |-> c[2]]] : c \in Coordinates(rich)}
  \cup {[tool |-> t, headers |-> ("x-request-id" :> "r1"), args |-> << >>] :
         t \in {"authorization_server_metadata", "openid_configuration_metadata"}}

(***************************************************************************)
(* State.                                                                  *)
(***************************************************************************)
VARIABLES
  pc,       \* pc[i]: where invocation i stands
  call,     \* call[i]: the tool, the inbound headers and the arguments
  locals,   \* locals[f]: the local variables of the coroutine frame f
  result,   \* result[i]: Pending, the returned value or the raised fault
  sent,     \* sent[i]: the outbound requests invocation i issued, in order
  rcvd      \* rcvd[i]: the responses delivered to invocation i, in order

vars == <<pc, call, locals, result, sent, rcvd>>

NoLocals ==
  [authtoken |-> Unset, userinfo |-> Unset, data |-> Unset,
   points_data |-> Unset, forecast_url |-> Unset, forecast_data |-> Unset]

Init ==
  /\ pc = [i \in Inv |-> "idle"]
  /\ call = [i \in Inv |-> Unset]
  /\ locals = [i \in Inv |-> NoLocals]
  /\ result = [i \in Inv |-> Pending]
  /\ sent = [i \in Inv |-> << >>]
  /\ rcvd = [i \in Inv |-> << >>]

\* One module-level set of variables for all invocations.
SharedFrame(i) == 1
\* The frame that holds invocation i's local variables: every call of a
\* coroutine function has a frame of its own.
Frame(i) == i

\* get_http_headers(): the headers of the request being served.
get_http_headers(i) == call[i].headers

Finish(i, outcome) ==
  /\ result' = [result EXCEPT ![i] = outcome]
  /\ pc' = [pc EXCEPT ![i] = "done"]

Send(i, req, at) ==
  /\ sent' = [sent EXCEPT ![i] = Append(@, req)]
  /\ pc' = [pc EXCEPT ![i] = at]

Deliver(i, r) == rcvd' = [rcvd EXCEPT ![i] = Append(@, r)]

Store(i, name, v) == locals' = [locals EXCEPT ![Frame(i)][name] = v]

LastSent(i) == sent[i][Len(sent[i])]

\* A fetcher that tries again: the same request goes out once more.
Retry(i) ==
  /\ sent' = [sent EXCEPT ![i] = Append(@, LastSent(i))]
  /\ UNCHANGED <<pc, call, locals, result>>

(***************************************************************************)
(* The serving framework accepts a call.                                   *)
(***************************************************************************)
Invoke(i, rich) ==
  /\ pc[i] = "idle"
  /\ \E c \in Calls(rich) : call' = [call EXCEPT ![i] = c]
  /\ pc' = [pc EXCEPT ![i] = "invoked"]
  /\ UNCHANGED <<locals, result, sent, rcvd>>

(***************************************************************************)
(* get_alerts.                                                             *)
(***************************************************************************)
\* From the entry to `await make_userinfo_request(authtoken)`.
AlertsBegin(i) ==
  /\ pc[i] = "invoked" /\ call[i].tool = "get_alerts"
  /\ LET authtoken == ReadAuthorization(get_http_headers(i)) IN
       IF Raised(authtoken)
       THEN Finish(i, authtoken) /\ UNCHANGED <<locals, sent>>
       ELSE /\ Store(i, "authtoken", authtoken.ret)
            /\ Send(i, UserinfoRequest(authtoken.ret), "await_userinfo")
            /\ UNCHANGED result
  /\ UNCHANGED <<call, rcvd>>

\* From the response of the userinfo endpoint to `await make_nws_request(url)`.
UserinfoReply(i, rich) ==
  /\ pc[i] = "await_userinfo"
  /\ \E r \in UserinfoResponses(LastSent(i), rich) :
       /\ Deliver(i, r)
       /\ IF FetchDisposition(r) = "retry" THEN Retry(i)
          ELSE LET userinfo == make_userinfo_request(r) IN
            IF Raised(userinfo)
            THEN Finish(i, userinfo) /\ UNCHANGED <<locals, sent>>
            ELSE /\ Store(i, "userinfo", userinfo.ret)
                 /\ LET name == UserinfoName(userinfo.ret) IN
                      IF Raised(name)
                      THEN Finish(i, name) /\ UNCHANGED sent
                      ELSE /\ Send(i, NwsRequest(AlertsUrl(call[i].args.state)),
                                   "await_alerts")
                           /\ UNCHANGED result
            /\ UNCHANGED call

\* From the response of the alerts endpoint to the return.
AlertsReply(i, rich) ==
  /\ pc[i] = "await_alerts"
  /\ \E r \in AlertsResponses(rich) :
       /\ Deliver(i, r)
       /\ IF FetchDisposition(r) = "retry" THEN Retry(i)
          ELSE LET data == make_nws_request(r) IN
            IF Raised(data)
            THEN Finish(i, data) /\ UNCHANGED <<locals, sent, call>>
            ELSE /\ Store(i, "data", data.ret)
                 /\ Finish(i, AlertsTail(data.ret, locals[Frame(i)].userinfo))
                 /\ UNCHANGED <<sent, call>>

(***************************************************************************)
(* get_forecast.                                                           *)
(***************************************************************************)
\* From the entry to `await make_nws_request(points_url)`.
ForecastBegin(i) ==
  /\ pc[i] = "invoked" /\ call[i].tool = "get_forecast"
  /\ Send(i, NwsRequest(PointsUrl(call[i].args.latitude, call[i].args.longitude)),
          "await_points")
  /\ UNCHANGED <<call, locals, result, rcvd>>

\* From the response of the points endpoint to `await make_nws_request(forecast_url)`.
PointsReply(i, rich) ==
  /\ pc[i] = "await_points"
  /\ \E r \in PointsResponses(rich) :
       /\ Deliver(i, r)
       /\ IF FetchDisposition(r) = "retry" THEN Retry(i)
          ELSE LET points_data == make_nws_request(r) IN
            IF Raised(points_data)
            THEN Finish(i, points_data) /\ UNCHANGED <<locals, sent, call>>
            ELSE LET next == ForecastUrlOf(points_data.ret) IN
              IF "next" \in DOMAIN next
              THEN /\ locals' = [locals EXCEPT ![Frame(i)]["points_data"] = points_data.ret,
                                               ![Frame(i)]["forecast_url"] = next.next]
                   /\ Send(i, NwsRequest(next.next), "await_forecast")
                   /\ UNCHANGED <<result, call>>
              ELSE /\ Store(i, "points_data", points_data.ret)
                   /\ Finish(i, next)
                   /\ UNCHANGED <<sent, call>>

\* From the response of the forecast endpoint to the return.
ForecastReply(i, rich) ==
  /\ pc[i] = "await_forecast"
  /\ \E r \in ForecastResponses(rich) :
       /\ Deliver(i, r)
       /\ IF FetchDisposition(r) = "retry" THEN Retry(i)
          ELSE LET forecast_data == make_nws_request(r) IN
            IF Raised(forecast_data)
            THEN Finish(i, forecast_data) /\ UNCHANGED <<locals, sent, call>>
            ELSE /\ Store(i, "forecast_data", forecast_data.ret)
                 /\ Finish(i, ForecastTail(forecast_data.ret))
                 /\ UNCHANGED <<sent, call>>

(***************************************************************************)
(* The two metadata routes.                                                *)
(***************************************************************************)
IsMetadataRoute(tool) ==
  tool \in {"authorization_server_metadata", "openid_configuration_metadata"}

\* From the entry to `await client.get(...)`.
MetadataBegin(i) ==
  /\ pc[i] = "invoked" /\ IsMetadataRoute(call[i].tool)
  /\ Send(i, MetadataRequest(MetadataUrl(call[i].tool)), "await_metadata")
  /\ UNCHANGED <<call, locals, result, rcvd>>

\* From the response of the identity provider to the JSONResponse.
MetadataReply(i, rich) ==
  /\ pc[i] = "await_metadata"
  /\ \E r \in MetadataResponses(rich) :
       /\ Deliver(i, r)
       /\ Finish(i, metadata_route(r))
  /\ UNCHANGED <<call, locals, sent>>

(***************************************************************************)
(* Specifications.  Spec: the invocations of Inv run concurrently, each    *)
(* step is one segment of one of them.  SpecSeq: one invocation, with the  *)
(* long lists of calls and of upstream answers.                            *)
(***************************************************************************)
Step(i, rich) ==
  \/ Invoke(i, rich)
  \/ AlertsBegin(i)
  \/ UserinfoReply(i, rich)
  \/ AlertsReply(i, rich)
  \/ ForecastBegin(i)
  \/ PointsReply(i, rich)
  \/ ForecastReply(i, rich)
  \/ MetadataBegin(i)
  \/ MetadataReply(i, rich)

Next == \E i \in Inv : Step(i, FALSE)
Spec == Init /\ [][Next]_vars

NextSeq == Step(1, TRUE)
SpecSeq == Init /\ [][NextSeq]_vars

(***************************************************************************)
(* Properties.                                                             *)
(***************************************************************************)
IsTool(i, t) == pc[i] # "idle" /\ call[i].tool = t
Done(i) == pc[i] = "done"
Returned(i) == "ret" \in DOMAIN result[i]
Faulted(i) == "raise" \in DOMAIN result[i]

Sentences == {UNABLE_ALERTS, NO_ALERTS, UNABLE_POINTS, UNABLE_FORECAST}

\* The places of a text that hold the piece p.
Places(text, p) == {n \in 1..Len(text) : text[n] = p}

\* C1: in get_alerts and get_forecast, whenever an outbound fetch of the
\* invocation failed, the invocation ends by returning one of the fixed
\* sentences, never in a raised fault.
C1_FetchFailureEndsInSentence ==
  \A i \in Inv :
    (/\ Done(i)
     /\ call[i].tool \in {"get_alerts", "get_forecast"}
     /\ \E k \in 1..Len(rcvd[i]) : Failed(rcvd[i][k]))
    => (Returned(i) /\ result[i].ret \in Sentences)

\* C2: in get_alerts, with the header present and userinfo resolved with a
\* name: an alerts fetch that yields no value or a response without
\* `features` gives exactly UNABLE_ALERTS, an empty `features` gives exactly
\* NO_ALERTS, and in neither case is an alert formatted.
C2_NoAlertsSentences ==
  \A i \in Inv :
    (IsTool(i, "get_alerts") /\ Done(i) /\ Len(rcvd[i]) = 2)
    => LET data == locals[i].data IN
       /\ (data = PyNone \/ "features" \notin DOMAIN data)
            => result[i] = Ret(UNABLE_ALERTS)
       /\ ("features" \in DOMAIN data /\ data["features"] = << >>)
            => result[i] = Ret(NO_ALERTS)
       /\ ("features" \notin DOMAIN data \/ data["features"] = << >>)
            => Returned(i) /\ Places(result[i].ret, "\nEvent: ") = {}

C2_Witness ==
  \E i \in Inv :
    /\ IsTool(i, "get_alerts") /\ Done(i) /\ Len(rcvd[i]) = 2
    /\ "name" \in DOMAIN locals[i].userinfo
    /\ locals[i].data = [features |-> << >>]
    /\ result[i] = Ret(NO_ALERTS)

\* C3: get_forecast returns UNABLE_POINTS when the point lookup yields no
\* value, and then issues no forecast fetch; it returns UNABLE_FORECAST when
\* the point lookup gave a properties.forecast URL and the fetch of that URL
\* yields no value; the forecast fetch is issued after the point fetch has
\* completed, to the URL of the point response.
C3_ForecastStages ==
  \A i \in Inv :
    IsTool(i, "get_forecast")
    => /\ (Done(i) /\ locals[i].points_data = PyNone)
            => (result[i] = Ret(UNABLE_POINTS) /\ Len(sent[i]) = 1)
       /\ (Done(i) /\ locals[i].forecast_data = PyNone)
            => result[i] = Ret(UNABLE_FORECAST)
       /\ Len(sent[i]) >= 2
            => /\ Len(rcvd[i]) >= 1
               /\ rcvd[i][1].kind = "http" /\ "json" \in DOMAIN rcvd[i][1].body
               /\ sent[i][2].url = rcvd[i][1].body.json["properties"]["forecast"]
               /\ sent[i][1].url =
                    PointsUrl(call[i].args.latitude, call[i].args.longitude)

C3_Witness ==
  \E i \in Inv :
    /\ IsTool(i, "get_forecast") /\ Done(i)
    /\ Len(sent[i]) = 2 /\ Len(rcvd[i]) = 2
    /\ "forecast" \in DOMAIN locals[i].points_data["properties"]
    /\ Failed(rcvd[i][2])
    /\ locals[i].forecast_data = PyNone
    /\ result[i] = Ret(UNABLE_FORECAST)

Min(a, b) == IF a < b THEN a ELSE b

\* The pieces of one formatted period, of one formatted alert.
\* each field with the literal before it, and the closing newline.
PeriodBlockLen == 2 * Cardinality(PeriodKeys) + 1
AlertBlockLen == 2 * Cardinality(AlertFields) + 1

\* The k-th block of a text of blocks of `len` pieces, one separator piece
\* between two blocks.
Block(text, len, k) == SubSeq(text, (k - 1) * (len + 1) + 1, (k - 1) * (len + 1) + len)
SeparatorPlaces(len, m) == {k * (len + 1) : k \in 1..(m - 1)}

\* C4: when both fetches of get_forecast succeed and properties.periods has
\* n entries, the output is the first min(n, 5) entries formatted, in their
\* order, with the separator "\n---\n" between two consecutive blocks and
\* nowhere else; entries from the sixth on do not appear.
C4_FirstFivePeriods ==
  \A i \in Inv :
    (/\ IsTool(i, "get_forecast") /\ Done(i) /\ Returned(i)
     /\ Len(rcvd[i]) = 2 /\ ~Failed(rcvd[i][1]) /\ ~Failed(rcvd[i][2])
     /\ HasKey(locals[i].forecast_data, "properties"))
    => LET periods == locals[i].forecast_data["properties"]["periods"]
           n == Len(periods)
           m == Min(n, 5)
           text == result[i].ret
       IN /\ Len(text) = IF m = 0 THEN 0 ELSE m * PeriodBlockLen + (m - 1)
          /\ \A k \in 1..m :
               Block(text, PeriodBlockLen, k) = format_period(periods[k]).ret
          /\ Places(text, "\n---\n") = SeparatorPlaces(PeriodBlockLen, m)
          /\ \A k \in 6..n : Places(text, periods[k]["name"]) = {}

C4_Witness ==
  \E i \in Inv :
    /\ IsTool(i, "get_forecast") /\ Done(i) /\ Returned(i)
    /\ Len(rcvd[i]) = 2
    /\ HasKey(locals[i].forecast_data, "properties")
    /\ Len(locals[i].forecast_data["properties"]["periods"]) = 6
    /\ Len(result[i].ret) = 5 * PeriodBlockLen + 4

\* C5: when get_alerts receives n >= 1 features and userinfo resolved with
\* the name N, the output is the n formatted alerts in source order with
\* exactly n - 1 separators, each the literal "\n---\nHi N" between two
\* consecutive blocks; nothing precedes the first block or follows the last,
\* and for n = 1 the name is not in the output.
C5_AlertsJoinedWithGreeting ==
  \A i \in Inv :
    (/\ IsTool(i, "get_alerts") /\ Done(i) /\ Returned(i)
     /\ HasKey(locals[i].data, "features")
     /\ locals[i].data["features"] # << >>)
    => LET features == locals[i].data["features"]
           n == Len(features)
           N == locals[i].userinfo["name"]
           text == result[i].ret
       IN /\ Len(text) = n * AlertBlockLen + (n - 1)
          /\ \A k \in 1..n :
               Block(text, AlertBlockLen, k) = format_alert(features[k]).ret
          /\ Places(text, "\n---\nHi " \o N) = SeparatorPlaces(AlertBlockLen, n)
          /\ Cardinality(Places(text, "\n---\nHi " \o N)) = n - 1
          /\ n = 1 => \A p \in 1..Len(text) :
                        text[p] \notin {N, "Hi " \o N, "\n---\nHi " \o N}

C5_Witness ==
  \E i \in Inv :
    /\ IsTool(i, "get_alerts") /\ Done(i) /\ Returned(i)
    /\ HasKey(locals[i].data, "features")
    /\ Len(locals[i].data["features"]) = 3
    /\ locals[i].userinfo = [name |-> "Alex"]
    /\ Places(result[i].ret, "\n---\nHi Alex") = {12, 24}

\* A response that succeeded: a success status and a body that is JSON.
GoodResponse(r) ==
  /\ r.kind = "http"
  /\ r.status \in 200..299
  /\ "json" \in DOMAIN r.body

\* The local variable that holds the value of invocation i's k-th fetch.
Fetched(i, k) ==
  IF call[i].tool = "get_alerts"
  THEN (IF k = 1 THEN locals[i].userinfo ELSE locals[i].data)
  ELSE (IF k = 1 THEN locals[i].points_data ELSE locals[i].forecast_data)

FetchFaults == {"ConnectError", "ReadTimeout", "HTTPStatusError", "JSONDecodeError"}

\* C6: every fetch through make_nws_request or make_userinfo_request yields
\* the parsed JSON body when the request succeeds with a success status and
\* a parsable body, and None on a transport error, a timeout, a non-success
\* status or an unparsable body; it raises nothing to its caller.
C6_FetchYieldsBodyOrNone ==
  \A i \in Inv :
    (pc[i] # "idle" /\ call[i].tool \in {"get_alerts", "get_forecast"})
    => /\ \A k \in 1..Len(rcvd[i]) :
            LET r == rcvd[i][k] IN
            /\ GoodResponse(r) => Fetched(i, k) = r.body.json
            /\ ~GoodResponse(r) => Fetched(i, k) = PyNone
       /\ Faulted(i) => result[i].raise \notin FetchFaults

C6_Witness ==
  \E i \in Inv :
    /\ IsTool(i, "get_forecast") /\ Done(i)
    /\ Len(rcvd[i]) = 2
    /\ GoodResponse(rcvd[i][1])
    /\ locals[i].points_data = rcvd[i][1].body.json
    /\ rcvd[i][2] = Http(200, NotJson("{ truncated"))
    /\ locals[i].forecast_data = PyNone
    /\ Returned(i)

\* The line of an alert block for a field: its label, and the field's value
\* or the default.
AlertLine(props, label, field, default) ==
  <<label, IF field \in DOMAIN props THEN props[field] ELSE default>>

\* C7: for every alert feature with a `properties` record, format_alert
\* writes the five labelled lines in the order Event, Area, Severity,
\* Description, Instructions; a missing field's line carries its documented
\* default, a present field's line its value; no line is left out.
C7_AlertLinesAndDefaults ==
  \A i \in Inv :
    (/\ IsTool(i, "get_alerts") /\ Done(i) /\ Returned(i)
     /\ HasKey(locals[i].data, "features"))
    => \A k \in 1..Len(locals[i].data["features"]) :
         LET props == locals[i].data["features"][k]["properties"] IN
         Block(result[i].ret, AlertBlockLen, k) =
           AlertLine(props, "\nEvent: ", "event", "Unknown")
           \o AlertLine(props, "\nArea: ", "areaDesc", "Unknown")
           \o AlertLine(props, "\nSeverity: ", "severity", "Unknown")
           \o AlertLine(props, "\nDescription: ", "description",
                        "No description available")
           \o AlertLine(props, "\nInstructions: ", "instruction",
                        "No specific instructions provided")
           \o <<"\n">>

C7_Witness ==
  \E i \in Inv :
    /\ IsTool(i, "get_alerts") /\ Done(i) /\ Returned(i)
    /\ locals[i].data = [features |-> <<Feature({"areaDesc", "instruction"})>>]
    /\ result[i].ret =
         <<"\nEvent: ", "Unknown", "\nArea: ", "Wake County",
           "\nSeverity: ", "Unknown",
           "\nDescription: ", "No description available",
           "\nInstructions: ", "Move to higher ground", "\n">>

\* C8: get_alerts reads the authorization header, then resolves userinfo,
\* then fetches the alerts.  The alerts fetch is issued only after the
\* header was found and userinfo resolved to a record with a `name`.
\* Without the header the invocation ends in a fault with no outbound
\* request; with userinfo absent or without `name` it ends in a fault after
\* the userinfo request and without the alerts fetch.
C8_AlertsStepOrder ==
  \A i \in Inv :
    IsTool(i, "get_alerts")
    => LET headers == call[i].headers IN
       /\ Len(sent[i]) >= 1
            => /\ "authorization" \in DOMAIN headers
               /\ sent[i][1].url = USERINFO_URL
       /\ Len(sent[i]) >= 2
            => /\ Len(rcvd[i]) >= 1
               /\ GoodResponse(rcvd[i][1])
               /\ "name" \in DOMAIN rcvd[i][1].body.json
               /\ sent[i][2].url = AlertsUrl(call[i].args.state)
       /\ (Done(i) /\ "authorization" \notin DOMAIN headers)
            => (Faulted(i) /\ sent[i] = << >>)
       /\ (Len(rcvd[i]) >= 1
             /\ (~GoodResponse(rcvd[i][1])
                   \/ "name" \notin DOMAIN rcvd[i][1].body.json))
            => (Done(i) /\ Faulted(i) /\ Len(sent[i]) = 1)

C8_Witness ==
  \E i \in Inv :
    /\ IsTool(i, "get_alerts") /\ Done(i)
    /\ "authorization" \in DOMAIN call[i].headers
    /\ rcvd[i] = <<Http(200, Json([sub |-> "auth0|1"]))>>
    /\ result[i] = Raise("KeyError")
    /\ Len(sent[i]) = 1

\* C9: no outbound call is retried.  Every request gets one response and a
\* failed response is followed by no further request of the invocation;
\* get_alerts issues at most one userinfo request and then one alerts
\* request, get_forecast at most one point lookup and then one forecast
\* request, a metadata route exactly one request.
C9_NoRetry ==
  \A i \in Inv :
    pc[i] # "idle"
    => /\ Len(sent[i]) - Len(rcvd[i]) \in {0, 1}
       /\ \A k \in 1..Len(rcvd[i]) :
            Failed(rcvd[i][k]) => (Len(sent[i]) = k /\ Done(i))
       /\ \A k, l \in 1..Len(sent[i]) : sent[i][k] = sent[i][l] => k = l
       /\ call[i].tool = "get_alerts"
            => /\ Len(sent[i]) <= 2
               /\ \A k \in 1..Len(sent[i]) :
                    sent[i][k].url = IF k = 1 THEN USERINFO_URL
                                     ELSE AlertsUrl(call[i].args.state)
       /\ call[i].tool = "get_forecast"
            => /\ Len(sent[i]) <= 2
               /\ \A k \in 1..Len(sent[i]) :
                    IF k = 1
                    THEN sent[i][k].url =
                           PointsUrl(call[i].args.latitude, call[i].args.longitude)
                    ELSE sent[i][k].url \in ForecastUrls
       /\ IsMetadataRoute(call[i].tool)
            => /\ Len(sent[i]) <= 1
               /\ Done(i) => (Len(sent[i]) = 1
                              /\ sent[i][1].url = MetadataUrl(call[i].tool))

C9_Witness ==
  \E i, j \in Inv :
    /\ IsTool(i, "get_alerts") /\ Done(i)
    /\ Len(sent[i]) = 2 /\ Len(rcvd[i]) = 2 /\ Failed(rcvd[i][2])
    /\ IsTool(j, "openid_configuration_metadata") /\ Done(j)
    /\ Len(sent[j]) = 1 /\ Failed(rcvd[j][1])

\* The result of a call run alone, its responses delivered in order.
Alone(c, rs) ==
  IF c.tool = "get_alerts" THEN
    LET authtoken == ReadAuthorization(c.headers) IN
    IF Raised(authtoken) THEN authtoken
    ELSE IF Len(rs) < 1 THEN Pending
    ELSE LET userinfo == make_userinfo_request(rs[1]) IN
      IF Raised(userinfo) THEN userinfo
      ELSE IF Raised(UserinfoName(userinfo.ret)) THEN UserinfoName(userinfo.ret)
      ELSE IF Len(rs) < 2 THEN Pending
      ELSE LET data == make_nws_request(rs[2]) IN
        IF Raised(data) THEN data ELSE AlertsTail(data.ret, userinfo.ret)
  ELSE IF c.tool = "get_forecast" THEN
    IF Len(rs) < 1 THEN Pending
    ELSE LET points_data == make_nws_request(rs[1]) IN
      IF Raised(points_data) THEN points_data
      ELSE IF "next" \notin DOMAIN ForecastUrlOf(points_data.ret)
           THEN ForecastUrlOf(points_data.ret)
      ELSE IF Len(rs) < 2 THEN Pending
      ELSE LET forecast_data == make_nws_request(rs[2]) IN
        IF Raised(forecast_data) THEN forecast_data
        ELSE ForecastTail(forecast_data.ret)
  ELSE IF Len(rs) < 1 THEN Pending ELSE metadata_route(rs[1])

\* C10: concurrent invocations share no mutable state.  Under every
\* interleaving each invocation's result is the one it produces alone with
\* the same call and the same upstream responses; every get_alerts
\* invocation issues its own userinfo request with its own authorization
\* header value, and the name in its output is the one resolved for its
\* own token.
C10_InvocationsIndependent ==
  \A i \in Inv :
    pc[i] # "idle"
    => /\ Done(i) => result[i] = Alone(call[i], rcvd[i])
       /\ (call[i].tool = "get_alerts" /\ Len(sent[i]) >= 1)
            => sent[i][1] = UserinfoRequest(call[i].headers["authorization"])
       /\ (call[i].tool = "get_alerts" /\ Len(sent[i]) >= 2)
            => locals[i].userinfo = rcvd[i][1].body.json
       /\ (call[i].tool = "get_alerts" /\ Done(i) /\ Returned(i))
            => \A t \in Tokens :
                 Places(result[i].ret, "\n---\nHi " \o NameOf(t)) # {}
                   => t = call[i].headers["authorization"]

C10_Witness ==
  \E i, j \in Inv :
    /\ IsTool(i, "get_alerts") /\ IsTool(j, "get_alerts")
    /\ call[i].headers = ("authorization" :> "Bearer t1") @@ ("x-request-id" :> "r1")
    /\ call[j].headers = ("authorization" :> "Bearer t2") @@ ("x-request-id" :> "r1")
    /\ Done(i) /\ Returned(i) /\ Places(result[i].ret, "\n---\nHi Alex") # {}
    /\ Done(j) /\ Returned(j) /\ Places(result[j].ret, "\n---\nHi Sam") # {}

=============================================================================
